---- MODULE Spec2Model ----
(***************************************************************************)
(* Model of the gdpr-obfuscator streaming record-transform engine:         *)
(* obfuscate_stream and obfuscate_value (obfuscator.py), the format        *)
(* registry and the CSV / JSON / Parquet adapters (format_adapters.py),    *)
(* and the callers of the engine: obfuscate_csv_stream (obfuscator.py),    *)
(* s3_adapter.py and lambda_entry.py.                                      *)
(*                                                                         *)
(* Python str and bytes values are sequences of one-character strings;     *)
(* utf-8 maps an ASCII character to the byte of the same name and the one  *)
(* character outside ASCII to two bytes.  Python's None is the one-element *)
(* sequence None, which is not a sequence of characters.  A stream of CSV  *)
(* text is modelled at the level of the rows csv.reader yields /           *)
(* csv.writer receives: a sequence of rows, each a sequence of cells; a    *)
(* blank line is the empty row.                                            *)
(*                                                                         *)
(* Spec explores obfuscate_stream and the adapters, SpecFn the functions   *)
(* get_adapter, detect_format_from_filename and obfuscate_value on their   *)
(* own, SpecIO the callers of obfuscate_stream.                            *)
(***************************************************************************)
EXTENDS Integers, Sequences, FiniteSets, TLC

VARIABLES
    args,        \* the arguments of the call and the process environment
    pc,          \* position of the call
    key,         \* obfuscate_stream: the resolved key
    adapter,     \* obfuscate_stream: the adapter get_adapter returned
    in_pos,      \* number of rows csv.reader has consumed from input_stream
    fieldnames,  \* reader.fieldnames
    out,         \* rows written to output_stream
    count,       \* process_stream: count
    row,         \* process_stream: the dict of the row being processed
    pk_value,    \* process_stream: pk_value
    fidx,        \* index into sensitive_fields of the for loop
    calls,       \* every call of obfuscate_fn made so far: pk, field, ret, rec
    result,      \* value returned by obfuscate_stream / process_stream
    exc,         \* exception the call raised
    frames,      \* the callers of the running function, outermost first
    s3calls,     \* every call made on the S3 client so far
    text_out,    \* obfuscate_csv_stream: what was written to its text stream
    outcome      \* value the outermost caller returned

\* State of the callers of obfuscate_stream (shim, S3 adapter, Lambda)
callervars == <<frames, s3calls, text_out, outcome>>

vars == <<args, pc, key, adapter, in_pos, fieldnames, out, count, row,
          pk_value, fidx, calls, result, exc, frames, s3calls, text_out,
          outcome>>

----------------------------------------------------------------------------
(* Bounds of the model *)

MaxRows == 2
MaxCells == 3

----------------------------------------------------------------------------
(* Strings *)

None == <<"<None>">>
EmptyStr == <<>>

s_id == <<"i", "d">>
s_nm == <<"n", "m">>
s_em == <<"e", "m">>
s_a == <<"a">>
s_mask == <<"*", "*", "*">>
s_k1 == <<"k", "1">>
s_k2 == <<"k", "2">>

s_csv == <<"c", "s", "v">>
s_JSON == <<"J", "S", "O", "N">>
s_json == <<"j", "s", "o", "n">>
s_jsonl == <<"j", "s", "o", "n", "l">>
s_parquet == <<"p", "a", "r", "q", "u", "e", "t">>
s_xml == <<"x", "m", "l">>

Range(s) == {s[i] : i \in DOMAIN s}

Upper == <<"A", "B", "C", "D", "E", "F", "G", "H", "I", "J", "K", "L", "M",
           "N", "O", "P", "Q", "R", "S", "T", "U", "V", "W", "X", "Y", "Z">>
Lower == <<"a", "b", "c", "d", "e", "f", "g", "h", "i", "j", "k", "l", "m",
           "n", "o", "p", "q", "r", "s", "t", "u", "v", "w", "x", "y", "z">>

LowerChar(c) ==
    IF \E i \in DOMAIN Upper : Upper[i] = c
    THEN Lower[CHOOSE i \in DOMAIN Upper : Upper[i] = c]
    ELSE c

\* str.lower()
lower(s) == [i \in DOMAIN s |-> LowerChar(s[i])]

\* The one character outside ASCII the model has, U+00E9, and its two bytes
c_eacute == "e_acute"
b_C3 == "xC3"
b_A9 == "xA9"

\* str.encode("utf-8"): an ASCII character is its own byte
RECURSIVE utf8_encode(_)
utf8_encode(s) ==
    IF s = <<>> THEN <<>>
    ELSE (IF Head(s) = c_eacute THEN <<b_C3, b_A9>> ELSE <<Head(s)>>)
             \o utf8_encode(Tail(s))

\* bytes.decode("utf-8"), on the bytes utf8_encode produces
RECURSIVE utf8_decode(_)
utf8_decode(b) ==
    IF b = <<>> THEN <<>>
    ELSE IF Len(b) >= 2 /\ b[1] = b_C3 /\ b[2] = b_A9
    THEN <<c_eacute>> \o utf8_decode(SubSeq(b, 3, Len(b)))
    ELSE <<Head(b)>> \o utf8_decode(Tail(b))

\* bytes.decode("latin-1"): every byte is a character of its own
latin1_decode(b) == b

Min(a, b) == IF a <= b THEN a ELSE b
Max(a, b) == IF a >= b THEN a ELSE b

\* s[:n] of Python
SlicePrefix(s, n) ==
    IF n >= 0 THEN SubSeq(s, 1, Min(n, Len(s)))
    ELSE SubSeq(s, 1, Max(Len(s) + n, 0))

----------------------------------------------------------------------------
(* obfuscator.py: the tokenizer *)

HexChars == <<"0", "1", "2", "3", "4", "5", "6", "7",
              "8", "9", "a", "b", "c", "d", "e", "f">>

\* Characters that occur in keys, primary-key values and field names.
Alphabet ==
    <<"i", "d", "n", "m", "e", "a", "*", "k", "1", "2", "|", b_C3, b_A9>>

Ord(c) == CHOOSE i \in DOMAIN Alphabet : Alphabet[i] = c

\* Number of characters of hashlib.sha256().hexdigest()
DigestChars == 64

RECURSIVE Absorb(_, _)
Absorb(bytes, acc) ==
    IF bytes = <<>> THEN acc
    ELSE Absorb(Tail(bytes), (acc * 31 + Ord(Head(bytes))) % 65521)

\* hmac.new(key, digestmod=sha256) ... hexdigest(): a keyed digest of msg in
\* lowercase hexadecimal.  SHA-256 itself is replaced by a small keyed checksum
\* that keeps what the code relies on: determinism, dependence on the key and
\* on every byte of the message, and a fixed-length hex encoding.
hexdigest(k, msg) ==
    LET h == Absorb(msg, Absorb(k, 7))
    IN  [i \in 1..DigestChars |-> HexChars[((((h % 256) + i) * ((h \div 256) + 3 * i)) % 16) + 1]]

\* obfuscate_value that cuts the mask to the token length
obfuscate_value_MaskTruncated(k, value, field, length, mode, mask_token) ==
    IF mode = "mask" THEN SlicePrefix(mask_token, length)
    ELSE LET pv == IF value = None THEN EmptyStr ELSE value
             msg == utf8_encode(pv) \o <<"|">> \o utf8_encode(field)
         IN  SlicePrefix(hexdigest(k, msg), length)

obfuscate_value(k, primary_value, field_name, length, mode, mask_token) ==
    IF mode = "mask" THEN mask_token
    ELSE LET pv == IF primary_value = None THEN EmptyStr ELSE primary_value
             msg == utf8_encode(pv) \o <<"|">> \o utf8_encode(field_name)
         IN  SlicePrefix(hexdigest(k, msg), length)

\* _get_key that takes only an unset variable for a missing key
_get_key_EmptyAccepted(env_key) ==
    IF env_key = None THEN None ELSE env_key

\* _get_key: the key from the environment, or None where it raises RuntimeError
_get_key(env_key) ==
    IF env_key = None \/ env_key = EmptyStr THEN None ELSE env_key

----------------------------------------------------------------------------
(* format_adapters.py: the registry *)

\* A registry that hands line-delimited JSON to the CSV adapter
format_map_JsonlAsCsv ==
    {<<s_csv, "CSVAdapter">>, <<s_json, "JSONAdapter">>,
     <<s_jsonl, "CSVAdapter">>, <<s_parquet, "ParquetAdapter">>}

format_map ==
    {<<s_csv, "CSVAdapter">>, <<s_json, "JSONAdapter">>,
     <<s_jsonl, "JSONAdapter">>, <<s_parquet, "ParquetAdapter">>}

\* get_adapter that looks the tag up as it was given
get_adapter_CaseSensitive(file_format) ==
    IF \E e \in format_map : e[1] = file_format
    THEN (CHOOSE e \in format_map : e[1] = file_format)[2]
    ELSE "ValueError"

\* get_adapter: the adapter class, or "ValueError"
get_adapter(file_format) ==
    LET format_lower == lower(file_format)
    IN  IF \E e \in format_map : e[1] = format_lower
        THEN (CHOOSE e \in format_map : e[1] = format_lower)[2]
        ELSE "ValueError"

\* The ValueError of get_adapter: the tag as it was given and the keys of
\* format_map
get_adapter_error(file_format) ==
    [kind |-> "ValueError", tag |-> file_format,
     supported |-> {e[1] : e \in format_map}]

\* str.endswith
endswith(s, suffix) ==
    /\ Len(s) >= Len(suffix)
    /\ SubSeq(s, Len(s) - Len(suffix) + 1, Len(s)) = suffix

x_csv == <<".">> \o s_csv
x_json == <<".">> \o s_json
x_jsonl == <<".">> \o s_jsonl
x_ndjson == <<".", "n", "d">> \o s_json
x_parquet == <<".">> \o s_parquet
x_pq == <<".", "p", "q">>

\* detect_format_from_filename that does not know the .ndjson suffix
detect_format_from_filename_NoNdjson(filename) ==
    LET filename_lower == lower(filename)
    IN  IF endswith(filename_lower, x_csv)
        THEN [kind |-> "str", value |-> s_csv]
        ELSE IF endswith(filename_lower, x_jsonl)
        THEN [kind |-> "str", value |-> s_jsonl]
        ELSE IF endswith(filename_lower, x_json)
        THEN [kind |-> "str", value |-> s_json]
        ELSE IF endswith(filename_lower, x_parquet)
                \/ endswith(filename_lower, x_pq)
        THEN [kind |-> "str", value |-> s_parquet]
        ELSE [kind |-> "ValueError", filename |-> filename,
              extensions |-> <<x_csv, x_json, x_jsonl, x_parquet>>]

\* detect_format_from_filename: the tag, or the ValueError with the filename
\* as it was given and the extensions its message lists
detect_format_from_filename(filename) ==
    LET filename_lower == lower(filename)
    IN  IF endswith(filename_lower, x_csv)
        THEN [kind |-> "str", value |-> s_csv]
        ELSE IF endswith(filename_lower, x_jsonl)
                \/ endswith(filename_lower, x_ndjson)
        THEN [kind |-> "str", value |-> s_jsonl]
        ELSE IF endswith(filename_lower, x_json)
        THEN [kind |-> "str", value |-> s_json]
        ELSE IF endswith(filename_lower, x_parquet)
                \/ endswith(filename_lower, x_pq)
        THEN [kind |-> "str", value |-> s_parquet]
        ELSE [kind |-> "ValueError", filename |-> filename,
              extensions |-> <<x_csv, x_json, x_jsonl, x_parquet>>]

\* The test suite's stand-in for obfuscate_fn: f"OBFUSCATED_{field_name}_{pk_value}"
mock_obfuscate(pk, field_name) ==
    <<"O", "B", "F", "U", "S", "C", "A", "T", "E", "D", "_">> \o field_name
        \o <<"_">> \o (IF pk = None THEN <<"N", "o", "n", "e">> ELSE pk)

----------------------------------------------------------------------------
(* csv.DictReader / csv.DictWriter as CSVAdapter.process_stream uses them *)

\* A row dict: map holds the string keys, has_rest says whether the key None
\* (DictReader's restkey) is present, rest is its value.
NoRow == [map |-> <<>>, has_rest |-> FALSE, rest |-> <<>>]

LastIndex(fnames, f) ==
    CHOOSE i \in DOMAIN fnames :
        fnames[i] = f /\ \A j \in DOMAIN fnames : fnames[j] = f => j <= i

\* DictReader.__next__ on a non-blank row: dict(zip(fieldnames, row)), extra
\* cells under restkey (None), missing fields set to restval (None).
DictReaderRow(fnames, cells) ==
    [map |-> [f \in Range(fnames) |->
                 IF LastIndex(fnames, f) <= Len(cells)
                 THEN cells[LastIndex(fnames, f)] ELSE None],
     has_rest |-> Len(fnames) < Len(cells),
     rest |-> IF Len(fnames) < Len(cells)
              THEN SubSeq(cells, Len(fnames) + 1, Len(cells)) ELSE <<>>]

\* DictReader skips blank rows: index of the next non-blank row after pos,
\* Len(lines) + 1 when the input is exhausted.
NextNonBlank(lines, pos) ==
    IF \E i \in (pos + 1)..Len(lines) : lines[i] # <<>>
    THEN CHOOSE i \in (pos + 1)..Len(lines) :
             lines[i] # <<>> /\ \A j \in (pos + 1)..(i - 1) : lines[j] = <<>>
    ELSE Len(lines) + 1

\* row.get(key, default)
DictGet(d, k, default) == IF k \in DOMAIN d.map THEN d.map[k] ELSE default

\* DictWriter._dict_to_list with extrasaction="raise": TRUE when it raises
WrongFields(fnames, d) ==
    d.has_rest \/ \E k \in DOMAIN d.map : k \notin Range(fnames)

\* csv.writer writes None as the empty string
WriterCell(v) == IF v = None THEN EmptyStr ELSE v

\* The cells DictWriter.writerow hands to csv.writer (restval = "")
DictToList(fnames, d) ==
    [i \in DOMAIN fnames |-> WriterCell(DictGet(d, fnames[i], EmptyStr))]

\* DictWriter.writeheader: writerow(dict(zip(fieldnames, fieldnames)))
HeaderDict(fnames) ==
    [map |-> [f \in Range(fnames) |-> f], has_rest |-> FALSE, rest |-> <<>>]

----------------------------------------------------------------------------
(* The calls the model explores *)

RECURSIVE SeqsUpTo(_, _)
\* All sequences over S of length 0..n
SeqsUpTo(S, n) ==
    IF n = 0 THEN {<<>>}
    ELSE LET shorter == SeqsUpTo(S, n - 1)
         IN  shorter \cup {Append(q, x) : q \in shorter, x \in S}

CellValues == {s_a, s_mask}

\* s * n of Python
Repeat(s, n) == [i \in 1..(n * Len(s)) |-> s[((i - 1) % Len(s)) + 1]]

\* A data line: a blank line, one or two cells (the headers have two fields),
\* or two cells followed by extra cells, up to MaxCells cells in all
DataLines ==
    SeqsUpTo(CellValues, 2)
    \cup {<<s_a, s_a>> \o Repeat(<<s_a>>, n) : n \in 1..(MaxCells - 2)}

\* Headers with distinct field names (section 3 of the specification), and
\* the blank first line
HeaderLines ==
    {<<s_id, s_em>>, <<s_em, s_id>>, <<s_nm, s_em>>, <<s_id, s_nm>>, <<>>}

\* Input streams: empty, or a first line followed by at most MaxRows lines
Inputs ==
    {<<>>} \cup {<<h>> \o d : h \in HeaderLines, d \in SeqsUpTo(DataLines, MaxRows)}

\* sensitive_fields: one name, two names in both orders, a repeated name
\* (the header <<id, nm>> has none of the requested em)
SensitiveLists ==
    {<<s_em>>, <<s_id, s_em>>, <<s_em, s_id>>, <<s_em, s_em>>}

FormatTags == {s_csv, s_json, s_JSON, s_jsonl, s_parquet, s_xml}

\* Default of token_length
TokenLength == 16

\* file_format, key argument, OBFUSCATOR_KEY of the environment, mode,
\* token_length: every tag without a key and with a key argument, and the CSV
\* tag with an empty key in the environment, a key in the environment and in
\* mask mode with a token_length shorter than the mask
OrchestratorConfigs ==
    {<<t, None, None, "token", TokenLength>> : t \in FormatTags}
    \cup {<<t, s_k1, None, "token", TokenLength>> : t \in FormatTags}
    \cup {<<s_csv, None, EmptyStr, "token", TokenLength>>,
          <<s_csv, None, s_k2, "token", TokenLength>>,
          <<s_csv, s_k1, None, "mask", 2>>}

\* Adapters the test suite calls directly, with mock_obfuscate as callback
AdapterTags == {s_csv, s_json, s_jsonl, s_parquet}

\* obfuscate_stream(input, output, sensitive_fields, file_format, "id", key,
\* mode, "***", 16)
OrchestratorCall(i, sf, c) ==
    [entry |-> "obfuscate_stream", input |-> i, sensitive_fields |-> sf,
     primary_key_field |-> s_id, file_format |-> c[1], key |-> c[2],
     env_key |-> c[3], mode |-> c[4], mask_token |-> s_mask,
     token_length |-> c[5]]

\* get_adapter(tag).process_stream(input, output, sensitive_fields, "id",
\* mock_obfuscate)
AdapterCall(i, sf, t) ==
    [entry |-> "process_stream", input |-> i, sensitive_fields |-> sf,
     primary_key_field |-> s_id, file_format |-> t, key |-> None,
     env_key |-> None, mode |-> "token", mask_token |-> s_mask,
     token_length |-> TokenLength]

Init ==
    /\ \E i \in Inputs, sf \in SensitiveLists :
          \/ \E c \in OrchestratorConfigs : args = OrchestratorCall(i, sf, c)
          \/ \E t \in AdapterTags : args = AdapterCall(i, sf, t)
    /\ pc = args.entry
    /\ key = None
    /\ adapter = IF args.entry = "process_stream"
                 THEN get_adapter(args.file_format) ELSE "none"
    /\ in_pos = 0
    /\ fieldnames = None
    /\ out = <<>>
    /\ count = 0
    /\ row = NoRow
    /\ pk_value = None
    /\ fidx = 0
    /\ calls = <<>>
    /\ result = -1
    /\ exc = "none"
    /\ frames = <<>>
    /\ s3calls = <<>>
    /\ text_out = <<>>
    /\ outcome = None

\* The callback the adapter is given: the closure of obfuscate_stream, or the
\* test stub when the adapter is called directly
obfuscate_fn(pk, field_name) ==
    IF args.entry = "process_stream"
    THEN mock_obfuscate(pk, field_name)
    ELSE obfuscate_value(key, pk, field_name, args.token_length, args.mode,
                         args.mask_token)

Raise(e) ==
    /\ pc' = "raised"
    /\ exc' = e

----------------------------------------------------------------------------
(* obfuscate_stream *)

\* if key is None: key = _get_key()
ResolveKey ==
    /\ pc = "obfuscate_stream"
    /\ LET k == IF args.key = None THEN _get_key(args.env_key) ELSE args.key
       IN  IF k = None
           THEN Raise("RuntimeError") /\ UNCHANGED key
           ELSE key' = k /\ pc' = "get_adapter" /\ UNCHANGED exc
    /\ UNCHANGED callervars
    /\ UNCHANGED <<args, adapter, in_pos, fieldnames, out, count, row,
                   pk_value, fidx, calls, result>>

\* adapter = get_adapter(file_format)
GetAdapter ==
    /\ pc = "get_adapter"
    /\ LET a == get_adapter(args.file_format)
       IN  IF a = "ValueError"
           THEN Raise("ValueError") /\ UNCHANGED adapter
           ELSE adapter' = a /\ pc' = "process_stream" /\ UNCHANGED exc
    /\ UNCHANGED callervars
    /\ UNCHANGED <<args, key, in_pos, fieldnames, out, count, row,
                   pk_value, fidx, calls, result>>

----------------------------------------------------------------------------
(* JSONAdapter.process_stream, ParquetAdapter.process_stream *)

JSONProcessStream ==
    /\ pc = "process_stream"
    /\ adapter = "JSONAdapter"
    /\ Raise("NotImplementedError")
    /\ UNCHANGED callervars
    /\ UNCHANGED <<args, key, adapter, in_pos, fieldnames, out, count, row,
                   pk_value, fidx, calls, result>>

ParquetProcessStream ==
    /\ pc = "process_stream"
    /\ adapter = "ParquetAdapter"
    /\ Raise("NotImplementedError")
    /\ UNCHANGED callervars
    /\ UNCHANGED <<args, key, adapter, in_pos, fieldnames, out, count, row,
                   pk_value, fidx, calls, result>>

----------------------------------------------------------------------------
(* CSVAdapter.process_stream *)

\* CSVReadHeader with the test "reader.fieldnames is None" in place of
\* "not reader.fieldnames"
CSVReadHeader_NoneOnly ==
    /\ pc = "process_stream"
    /\ adapter = "CSVAdapter"
    /\ IF Len(args.input) = 0
       THEN /\ Raise("ValueError")
            /\ UNCHANGED <<in_pos, fieldnames>>
       ELSE /\ in_pos' = 1
            /\ fieldnames' = args.input[1]
            /\ pc' = "writeheader"
            /\ UNCHANGED exc
    /\ UNCHANGED callervars
    /\ UNCHANGED <<args, key, adapter, out, count, row, pk_value, fidx,
                   calls, result>>

\* reader = csv.DictReader(text_in); if not reader.fieldnames: raise ValueError
CSVReadHeader ==
    /\ pc = "process_stream"
    /\ adapter = "CSVAdapter"
    /\ IF Len(args.input) = 0
       THEN /\ Raise("ValueError")
            /\ UNCHANGED <<in_pos, fieldnames>>
       ELSE /\ in_pos' = 1
            /\ fieldnames' = args.input[1]
            /\ IF args.input[1] = <<>>
               THEN Raise("ValueError")
               ELSE pc' = "writeheader" /\ UNCHANGED exc
    /\ UNCHANGED callervars
    /\ UNCHANGED <<args, key, adapter, out, count, row, pk_value, fidx,
                   calls, result>>

\* CSVWriteHeader that counts the header line as a record
CSVWriteHeader_CountsHeader ==
    /\ pc = "writeheader"
    /\ out' = Append(out, DictToList(fieldnames, HeaderDict(fieldnames)))
    /\ count' = 1
    /\ pc' = "next_row"
    /\ UNCHANGED callervars
    /\ UNCHANGED <<args, key, adapter, in_pos, fieldnames, row, pk_value,
                   fidx, calls, result, exc>>

\* writer = csv.DictWriter(text_out, fieldnames=reader.fieldnames)
\* writer.writeheader(); count = 0
CSVWriteHeader ==
    /\ pc = "writeheader"
    /\ out' = Append(out, DictToList(fieldnames, HeaderDict(fieldnames)))
    /\ count' = 0
    /\ pc' = "next_row"
    /\ UNCHANGED callervars
    /\ UNCHANGED <<args, key, adapter, in_pos, fieldnames, row, pk_value,
                   fidx, calls, result, exc>>

\* for row in reader: count += 1; pk_value = row.get(primary_key_field, "")
CSVNextRow ==
    /\ pc = "next_row"
    /\ LET n == NextNonBlank(args.input, in_pos)
       IN  IF n > Len(args.input)
           THEN /\ in_pos' = Len(args.input)
                /\ pc' = "return"
                /\ UNCHANGED <<count, row, pk_value, fidx>>
           ELSE /\ in_pos' = n
                /\ count' = count + 1
                /\ row' = DictReaderRow(fieldnames, args.input[n])
                /\ pk_value' = DictGet(row', args.primary_key_field, EmptyStr)
                /\ fidx' = 1
                /\ pc' = "fields"
    /\ UNCHANGED callervars
    /\ UNCHANGED <<args, key, adapter, fieldnames, out, calls, result, exc>>

\* CSVObfuscateField that looks the primary key up in the row at every call
CSVObfuscateField_LivePk ==
    /\ pc = "fields"
    /\ fidx <= Len(args.sensitive_fields)
    /\ LET field == args.sensitive_fields[fidx]
           pk == DictGet(row, args.primary_key_field, EmptyStr)
       IN  IF field \in DOMAIN row.map
           THEN /\ row' = [row EXCEPT !.map[field] = obfuscate_fn(pk, field)]
                /\ calls' = Append(calls, [pk |-> pk, field |-> field,
                                           ret |-> obfuscate_fn(pk, field),
                                           rec |-> count])
           ELSE UNCHANGED <<row, calls>>
    /\ fidx' = fidx + 1
    /\ UNCHANGED callervars
    /\ UNCHANGED <<args, pc, key, adapter, in_pos, fieldnames, out, count,
                   pk_value, result, exc>>

\* CSVObfuscateField that calls obfuscate_fn and drops what it returns
CSVObfuscateField_KeepsRaw ==
    /\ pc = "fields"
    /\ fidx <= Len(args.sensitive_fields)
    /\ LET field == args.sensitive_fields[fidx]
       IN  IF field \in DOMAIN row.map
           THEN calls' = Append(calls, [pk |-> pk_value, field |-> field,
                                        ret |-> obfuscate_fn(pk_value, field),
                                        rec |-> count])
           ELSE UNCHANGED calls
    /\ fidx' = fidx + 1
    /\ UNCHANGED callervars
    /\ UNCHANGED <<args, pc, key, adapter, in_pos, fieldnames, out, count,
                   row, pk_value, result, exc>>

\* for field in sensitive_fields:
\*     if field in row: row[field] = obfuscate_fn(pk_value, field)
CSVObfuscateField ==
    /\ pc = "fields"
    /\ fidx <= Len(args.sensitive_fields)
    /\ LET field == args.sensitive_fields[fidx]
       IN  IF field \in DOMAIN row.map
           THEN LET ret == obfuscate_fn(pk_value, field)
                IN  /\ row' = [row EXCEPT !.map[field] = ret]
                    /\ calls' = Append(calls, [pk |-> pk_value, field |-> field,
                                               ret |-> ret, rec |-> count])
           ELSE UNCHANGED <<row, calls>>
    /\ fidx' = fidx + 1
    /\ UNCHANGED callervars
    /\ UNCHANGED <<args, pc, key, adapter, in_pos, fieldnames, out, count,
                   pk_value, result, exc>>

\* CSVWriteRow that keeps the row back instead of writing it
CSVWriteRow_Buffered ==
    /\ pc = "fields"
    /\ fidx > Len(args.sensitive_fields)
    /\ IF WrongFields(fieldnames, row)
       THEN Raise("ValueError")
       ELSE pc' = "next_row" /\ UNCHANGED exc
    /\ UNCHANGED callervars
    /\ UNCHANGED <<args, key, adapter, in_pos, fieldnames, out, count, row,
                   pk_value, fidx, calls, result>>

\* CSVWriteRow that puts the newest record right after the header
CSVWriteRow_NewestFirst ==
    /\ pc = "fields"
    /\ fidx > Len(args.sensitive_fields)
    /\ IF WrongFields(fieldnames, row)
       THEN Raise("ValueError") /\ UNCHANGED out
       ELSE /\ out' = <<Head(out), DictToList(fieldnames, row)>> \o Tail(out)
            /\ pc' = "next_row"
            /\ UNCHANGED exc
    /\ UNCHANGED callervars
    /\ UNCHANGED <<args, key, adapter, in_pos, fieldnames, count, row,
                   pk_value, fidx, calls, result>>

\* writer.writerow(row)
CSVWriteRow ==
    /\ pc = "fields"
    /\ fidx > Len(args.sensitive_fields)
    /\ IF WrongFields(fieldnames, row)
       THEN Raise("ValueError") /\ UNCHANGED out
       ELSE /\ out' = Append(out, DictToList(fieldnames, row))
            /\ pc' = "next_row"
            /\ UNCHANGED exc
    /\ UNCHANGED callervars
    /\ UNCHANGED <<args, key, adapter, in_pos, fieldnames, count, row,
                   pk_value, fidx, calls, result>>

\* text_out.flush(); return count  (obfuscate_stream returns it unchanged)
CSVReturn ==
    /\ pc = "return"
    /\ result' = count
    /\ pc' = "done"
    /\ UNCHANGED callervars
    /\ UNCHANGED <<args, key, adapter, in_pos, fieldnames, out, count, row,
                   pk_value, fidx, calls, exc>>

Next ==
    \/ ResolveKey
    \/ GetAdapter
    \/ JSONProcessStream
    \/ ParquetProcessStream
    \/ CSVReadHeader
    \/ CSVWriteHeader
    \/ CSVNextRow
    \/ CSVObfuscateField
    \/ CSVWriteRow
    \/ CSVReturn

Spec == Init /\ [][Next]_vars

TypeOK ==
    /\ pc \in {"obfuscate_stream", "get_adapter", "process_stream",
               "writeheader", "next_row", "fields", "return", "done", "raised"}
    /\ exc \in {"none", "RuntimeError", "ValueError", "NotImplementedError"}
    /\ in_pos \in 0..Len(args.input)
    /\ count \in 0..MaxRows

----------------------------------------------------------------------------
(* get_adapter, detect_format_from_filename and obfuscate_value called on   *)
(* their own                                                                *)

UpperChar(c) ==
    IF \E i \in DOMAIN Lower : Lower[i] = c
    THEN Upper[CHOOSE i \in DOMAIN Lower : Lower[i] = c]
    ELSE c

\* A lower-case string as written, in capitals, or with every other letter
\* in capitals
Cased(s, casing) ==
    [i \in DOMAIN s |->
        IF casing = "upper" \/ (casing = "mixed" /\ i % 2 = 1)
        THEN UpperChar(s[i]) ELSE s[i]]

Casings == {"lower", "upper", "mixed"}

\* Tags in lower case: the four of the registry, suffix names that are not
\* tags, an unknown tag, a tag with a trailing blank and the empty tag
BaseTags ==
    {s_csv, s_json, s_jsonl, s_parquet, s_xml, <<"n", "d">> \o s_json,
     <<"p", "q">>, s_csv \o <<" ">>, s_json \o <<"s">>, EmptyStr}

\* File names in lower case: a stem, possibly with a suffix of its own,
\* followed by a recognised suffix, a near miss or nothing
Stems == {EmptyStr, s_a, s_a \o x_csv, s_a \o x_jsonl}

Suffixes ==
    {x_csv, x_json, x_jsonl, x_ndjson, x_parquet, x_pq, EmptyStr, s_csv,
     <<".", "t", "x", "t">>, x_csv \o <<".">>, <<".", "j", "s", "o">>,
     <<"d">> \o s_json, x_pq \o <<"t">>}

BaseNames == {st \o su : st \in Stems, su \in Suffixes}

FnKeys == {s_k1, s_k2, EmptyStr}
FnValues == {s_a, s_id, EmptyStr, None}
FnFields == {s_em, s_id}
\* Token lengths around the 64 characters of a hex digest
FnLengths == {0, 1, TokenLength, DigestChars - 1, DigestChars, DigestChars + 1}

GetAdapterCall(base, casing) ==
    [entry |-> "get_adapter", base |-> base,
     file_format |-> Cased(base, casing)]

DetectCall(base, casing) ==
    [entry |-> "detect_format_from_filename", base |-> base,
     filename |-> Cased(base, casing)]

ObfuscateValueCall(k, pv, f, n, m) ==
    [entry |-> "obfuscate_value", key |-> k, primary_value |-> pv,
     field_name |-> f, length |-> n, mode |-> m, mask_token |-> s_mask]

InitFn ==
    /\ \/ \E b \in BaseTags, c \in Casings : args = GetAdapterCall(b, c)
       \/ \E b \in BaseNames, c \in Casings : args = DetectCall(b, c)
       \/ \E k \in FnKeys, pv \in FnValues, f \in FnFields, n \in FnLengths,
             m \in {"token", "mask"} : args = ObfuscateValueCall(k, pv, f, n, m)
    /\ pc = "call"
    /\ key = None
    /\ adapter = "none"
    /\ in_pos = 0
    /\ fieldnames = None
    /\ out = <<>>
    /\ count = 0
    /\ row = NoRow
    /\ pk_value = None
    /\ fidx = 0
    /\ calls = <<>>
    /\ result = -1
    /\ exc = "none"
    /\ frames = <<>>
    /\ s3calls = <<>>
    /\ text_out = <<>>
    /\ outcome = [kind |-> "none"]

enginevars ==
    <<key, adapter, in_pos, fieldnames, out, count, row, pk_value, fidx,
      calls, result>>

CallGetAdapter ==
    /\ pc = "call"
    /\ args.entry = "get_adapter"
    /\ LET cls == get_adapter(args.file_format)
       IN  IF cls = "ValueError"
           THEN /\ outcome' = get_adapter_error(args.file_format)
                /\ Raise("ValueError")
           ELSE /\ outcome' = [kind |-> "adapter", class |-> cls]
                /\ pc' = "returned"
                /\ UNCHANGED exc
    /\ UNCHANGED <<args, frames, s3calls, text_out>>
    /\ UNCHANGED enginevars

CallDetectFormat ==
    /\ pc = "call"
    /\ args.entry = "detect_format_from_filename"
    /\ outcome' = detect_format_from_filename(args.filename)
    /\ IF outcome'.kind = "ValueError"
       THEN Raise("ValueError")
       ELSE pc' = "returned" /\ UNCHANGED exc
    /\ UNCHANGED <<args, frames, s3calls, text_out>>
    /\ UNCHANGED enginevars

CallObfuscateValue ==
    /\ pc = "call"
    /\ args.entry = "obfuscate_value"
    /\ outcome' = [kind |-> "str",
                   value |-> obfuscate_value(args.key, args.primary_value,
                                             args.field_name, args.length,
                                             args.mode, args.mask_token)]
    /\ pc' = "returned"
    /\ UNCHANGED <<args, exc, frames, s3calls, text_out>>
    /\ UNCHANGED enginevars

NextFn ==
    \/ CallGetAdapter
    \/ CallDetectFormat
    \/ CallObfuscateValue

SpecFn == InitFn /\ [][NextFn]_vars

----------------------------------------------------------------------------
(* The callers of obfuscate_stream: obfuscate_csv_stream (obfuscator.py),   *)
(* s3_adapter.py and lambda_entry.py.  A caller that waits for a callee is  *)
(* on the stack frames; a callee that is through leaves pc at "done" or     *)
(* "raised", and exc keeps the last exception raised.  The S3 client and    *)
(* Secrets Manager are the environment: what they answer is fixed by the    *)
(* call record.                                                             *)

\* A CSV stream as bytes and as text, cell by cell
EncodeRows(rows) ==
    [i \in DOMAIN rows |->
        [j \in DOMAIN rows[i] |-> utf8_encode(rows[i][j])]]

DecodeRows(rows) ==
    [i \in DOMAIN rows |->
        [j \in DOMAIN rows[i] |-> utf8_decode(rows[i][j])]]

\* DecodeRows that takes the bytes for latin-1
DecodeRows_Latin1(rows) ==
    [i \in DOMAIN rows |->
        [j \in DOMAIN rows[i] |-> latin1_decode(rows[i][j])]]

\* len() of the bytes of a stream: the cells, the commas between them and the
\* line terminator \r\n of csv.writer
RECURSIVE CellBytes(_)
CellBytes(r) == IF r = <<>> THEN 0 ELSE Len(Head(r)) + 1 + CellBytes(Tail(r))

RECURSIVE ByteLength(_)
ByteLength(rows) ==
    IF rows = <<>> THEN 0
    ELSE CellBytes(Head(rows)) + 1 + ByteLength(Tail(rows))

startswith(s, prefix) ==
    /\ Len(s) >= Len(prefix)
    /\ SubSeq(s, 1, Len(prefix)) = prefix

\* str.partition for a separator of one character
partition(s, sep) ==
    IF \E i \in DOMAIN s : s[i] = sep
    THEN LET i == CHOOSE i \in DOMAIN s :
                      s[i] = sep /\ \A j \in 1..(i - 1) : s[j] # sep
         IN  <<SubSeq(s, 1, i - 1), <<sep>>, SubSeq(s, i + 1, Len(s))>>
    ELSE <<s, EmptyStr, EmptyStr>>

p_s3 == <<"s", "3", ":", "/", "/">>

\* parse_s3_uri that takes any five characters for the scheme
parse_s3_uri_AnyScheme(uri) ==
    LET without_prefix == SubSeq(uri, 6, Len(uri))
        parts == partition(without_prefix, "/")
    IN  [kind |-> "tuple", bucket |-> parts[1], key |-> parts[3]]

parse_s3_uri(uri) ==
    IF ~startswith(uri, p_s3) THEN [kind |-> "ValueError"]
    ELSE LET without_prefix == SubSeq(uri, 6, Len(uri))
             parts == partition(without_prefix, "/")
         IN  [kind |-> "tuple", bucket |-> parts[1], key |-> parts[3]]

\* Python's truth value of an optional string
Falsy(v) == v = None \/ v = <<>>

\* None where a list of strings is expected, and the truth value of an
\* optional list
NoList == <<None>>
FalsyList(v) == v = NoList \/ v = <<>>

\* get_secret_value raises
LookupFails == <<"<ClientError>">>

\* safe_parse_payload; a str event is given by what json.loads makes of it
safe_parse_payload(event) ==
    IF event.pytype = "str"
    THEN IF event.json.pytype = "invalid"
         THEN [pytype |-> "ValueError",
               message |-> "Event is string but not valid JSON"]
         ELSE event.json
    ELSE IF event.pytype = "dict" THEN event
    ELSE [pytype |-> "ValueError", message |-> "Unsupported event type"]

----------------------------------------------------------------------------
(* The calls of the callers the model explores *)

u_bucket == p_s3 \o <<"b", "/">>
u_good == u_bucket \o s_a \o x_csv
u_target == p_s3 \o <<"t", "/", "o">>

\* s3://b/a.csv, the same with S3:// and http://, s3:/b/a.csv, objects whose
\* names give json, parquet and no format, a bucket alone and the empty URI
SourceUris ==
    {u_good, Cased(p_s3, "upper") \o <<"b", "/">> \o s_a \o x_csv,
     <<"h", "t", "t", "p", ":", "/", "/", "b", "/">> \o s_a \o x_csv,
     <<"s", "3", ":", "/", "b", "/">> \o s_a \o x_csv,
     u_bucket \o s_a \o x_json, u_bucket \o s_a \o x_pq, u_bucket \o s_a,
     p_s3 \o <<"b">>, EmptyStr}

TargetUris == {u_target, Cased(p_s3, "upper") \o <<"t", "/", "o">>, EmptyStr}

IOHeader == <<s_id, s_em>>

\* Texts: two records with the character outside ASCII as a value and as a
\* primary key, a record followed by one with an extra cell, a header alone
\* and the empty text
IOTexts ==
    {<<IOHeader, <<s_a, <<c_eacute>>>>, <<<<c_eacute>>, s_a>>>>,
     <<IOHeader, <<s_a, s_a>>, <<s_a, s_a, s_a>>>>,
     <<IOHeader>>,
     <<>>}

IOSensitiveLists == {<<s_em>>, <<s_id>>}

\* key, OBFUSCATOR_KEY, mode and token_length of an obfuscate_csv_stream call
ShimConfigs ==
    {<<s_k1, None, "token", TokenLength>>, <<None, s_k2, "token", TokenLength>>,
     <<None, None, "token", TokenLength>>, <<s_k1, None, "mask", 2>>}

\* What every call record of a caller holds: the arguments obfuscate_stream
\* will get, and the arguments and the environment of the callers
IOArgs(entry, sf) ==
    [entry |-> entry, input |-> <<>>, sensitive_fields |-> sf,
     primary_key_field |-> s_id, file_format |-> None, key |-> None,
     env_key |-> None, mode |-> "token", mask_token |-> s_mask,
     token_length |-> TokenLength, text |-> <<>>, s3_uri |-> None,
     target_s3_uri |-> None, object |-> <<>>, s3_get |-> "ok",
     s3_put |-> "ok", event |-> [pytype |-> "NoneType"],
     secret_name |-> None, secret |-> None]

ShimArgs(t, sf, c) ==
    [IOArgs("obfuscate_csv_stream", sf) EXCEPT
        !.text = t, !.key = c[1], !.env_key = c[2], !.mode = c[3],
        !.token_length = c[4]]

S3FileArgs(u, ff, t, g, env) ==
    [IOArgs("process_s3_file_to_bytes", <<s_em>>) EXCEPT
        !.s3_uri = u, !.file_format = ff, !.object = EncodeRows(t),
        !.s3_get = g, !.env_key = env]

UploadArgs(u, tg, t, g, p, env) ==
    [IOArgs("process_and_upload", <<s_em>>) EXCEPT
        !.s3_uri = u, !.target_s3_uri = tg, !.object = EncodeRows(t),
        !.s3_get = g, !.s3_put = p, !.env_key = env]

\* A dict event; None and NoList stand for a key the dict does not have
Payload(u, f, tg) ==
    [pytype |-> "dict", s3_uri |-> u, fields |-> f, primary_key |-> None,
     target_s3_uri |-> tg]

Events ==
    {[pytype |-> "int"], [pytype |-> "NoneType"],
     [pytype |-> "str", json |-> [pytype |-> "invalid"]],
     [pytype |-> "str", json |-> [pytype |-> "list"]],
     [pytype |-> "str", json |-> Payload(u_good, <<s_em>>, None)]}
    \cup {Payload(None, NoList, None), Payload(u_good, NoList, None),
          Payload(u_good, <<>>, u_target), Payload(EmptyStr, <<s_em>>, None)}
    \cup {Payload(u, <<s_em>>, tg) :
              u \in {u_good, u_bucket \o s_a \o x_json, s_a},
              tg \in TargetUris \cup {None}}

\* OBFUSCATOR_SECRET_NAME and what Secrets Manager answers for it
Secrets == {<<None, None>>, <<s_nm, s_k1>>, <<s_nm, None>>, <<s_nm, LookupFails>>}

LambdaArgs(ev, sec, env, t, g, p) ==
    [IOArgs("lambda_handler", <<>>) EXCEPT
        !.event = ev, !.secret_name = sec[1], !.secret = sec[2],
        !.env_key = env, !.object = EncodeRows(t), !.s3_get = g, !.s3_put = p]

S3Outcomes == {"ok", "error"}

InitIO ==
    /\ \/ \E t \in IOTexts, sf \in IOSensitiveLists, c \in ShimConfigs :
             args = ShimArgs(t, sf, c)
       \/ \E u \in SourceUris, ff \in {None, s_csv, s_xml}, t \in IOTexts,
             g \in S3Outcomes, env \in {None, s_k1} :
             args = S3FileArgs(u, ff, t, g, env)
       \/ \E u \in SourceUris, tg \in TargetUris, t \in IOTexts,
             g \in S3Outcomes, p \in S3Outcomes, env \in {None, s_k1} :
             args = UploadArgs(u, tg, t, g, p, env)
       \/ \E ev \in Events, sec \in Secrets, env \in {None, s_k2},
             t \in IOTexts, g \in S3Outcomes, p \in S3Outcomes :
             args = LambdaArgs(ev, sec, env, t, g, p)
    /\ pc = args.entry
    /\ key = None
    /\ adapter = "none"
    /\ in_pos = 0
    /\ fieldnames = None
    /\ out = <<>>
    /\ count = 0
    /\ row = NoRow
    /\ pk_value = None
    /\ fidx = 0
    /\ calls = <<>>
    /\ result = -1
    /\ exc = "none"
    /\ frames = <<>>
    /\ s3calls = <<>>
    /\ text_out = <<>>
    /\ outcome = [kind |-> "none"]

----------------------------------------------------------------------------
(* obfuscate_csv_stream *)

\* input_bytes = BytesIO(input_stream.read().encode("utf-8")), which the
\* adapter's TextIOWrapper decodes; obfuscate_stream(..., file_format="csv")
ShimCall ==
    /\ pc = "obfuscate_csv_stream"
    /\ args' = [args EXCEPT !.input = DecodeRows(EncodeRows(args.text)),
                            !.file_format = s_csv]
    /\ frames' = <<"obfuscate_csv_stream">> \o frames
    /\ pc' = "obfuscate_stream"
    /\ UNCHANGED <<exc, s3calls, text_out, outcome>>
    /\ UNCHANGED enginevars

\* ShimReturn that decodes the output bytes as latin-1
ShimReturn_Latin1 ==
    /\ pc \in {"done", "raised"}
    /\ frames # <<>>
    /\ Head(frames) = "obfuscate_csv_stream"
    /\ frames' = Tail(frames)
    /\ IF pc = "done"
       THEN /\ text_out' = DecodeRows_Latin1(EncodeRows(out))
            /\ outcome' = [kind |-> "NoneType"]
       ELSE UNCHANGED <<text_out, outcome>>
    /\ UNCHANGED <<args, pc, exc, s3calls>>
    /\ UNCHANGED enginevars

\* output_stream.write(output_bytes.getvalue().decode("utf-8")) and the
\* return of None, or the exception of obfuscate_stream passing through
ShimReturn ==
    /\ pc \in {"done", "raised"}
    /\ frames # <<>>
    /\ Head(frames) = "obfuscate_csv_stream"
    /\ frames' = Tail(frames)
    /\ IF pc = "done"
       THEN /\ text_out' = DecodeRows(EncodeRows(out))
            /\ outcome' = [kind |-> "NoneType"]
       ELSE UNCHANGED <<text_out, outcome>>
    /\ UNCHANGED <<args, pc, exc, s3calls>>
    /\ UNCHANGED enginevars

----------------------------------------------------------------------------
(* s3_adapter.py *)

\* process_s3_file_to_bytes up to the download: parse_s3_uri and the
\* detection of the format from the object's name
S3FileStart ==
    /\ pc = "process_s3_file_to_bytes"
    /\ LET parsed == parse_s3_uri(args.s3_uri)
           detected == detect_format_from_filename(parsed.key)
       IN  IF parsed.kind = "ValueError"
           THEN Raise("ValueError") /\ UNCHANGED args
           ELSE IF args.file_format # None
           THEN pc' = "get_object" /\ UNCHANGED <<args, exc>>
           ELSE IF detected.kind = "ValueError"
           THEN Raise("ValueError") /\ UNCHANGED args
           ELSE /\ args' = [args EXCEPT !.file_format = detected.value]
                /\ pc' = "get_object"
                /\ UNCHANGED exc
    /\ UNCHANGED <<frames, s3calls, text_out, outcome>>
    /\ UNCHANGED enginevars

\* resp = client.get_object(Bucket=bucket, Key=key) and the call of
\* obfuscate_stream on resp["Body"] with the key of the environment
S3GetObject ==
    /\ pc = "get_object"
    /\ LET parsed == parse_s3_uri(args.s3_uri)
       IN  s3calls' = Append(s3calls, [op |-> "get_object",
                                       Bucket |-> parsed.bucket,
                                       Key |-> parsed.key, Body |-> None])
    /\ IF args.s3_get = "ok"
       THEN /\ args' = [args EXCEPT !.input = DecodeRows(args.object)]
            /\ frames' = <<"process_s3_file_to_bytes">> \o frames
            /\ pc' = "obfuscate_stream"
            /\ UNCHANGED exc
       ELSE /\ Raise("ClientError")
            /\ UNCHANGED <<args, frames>>
    /\ UNCHANGED <<text_out, outcome>>
    /\ UNCHANGED enginevars

\* return output_bytes.getvalue(), or the exception of obfuscate_stream
\* (NotImplementedError raised anew)
S3FileReturn ==
    /\ pc \in {"done", "raised"}
    /\ frames # <<>>
    /\ Head(frames) = "process_s3_file_to_bytes"
    /\ frames' = Tail(frames)
    /\ IF pc = "done"
       THEN outcome' = [kind |-> "bytes", value |-> EncodeRows(out)]
       ELSE UNCHANGED outcome
    /\ UNCHANGED <<args, pc, exc, s3calls, text_out>>
    /\ UNCHANGED enginevars

\* process_and_upload up to the call of process_s3_file_to_bytes
UploadStart ==
    /\ pc = "process_and_upload"
    /\ IF parse_s3_uri(args.target_s3_uri).kind = "ValueError"
       THEN Raise("ValueError") /\ UNCHANGED frames
       ELSE /\ frames' = <<"process_and_upload">> \o frames
            /\ pc' = "process_s3_file_to_bytes"
            /\ UNCHANGED exc
    /\ UNCHANGED <<args, s3calls, text_out, outcome>>
    /\ UNCHANGED enginevars

\* UploadPut that uploads what was written also when processing failed
UploadPut_AlsoOnFailure ==
    /\ pc \in {"done", "raised"}
    /\ frames # <<>>
    /\ Head(frames) = "process_and_upload"
    /\ frames' = Tail(frames)
    /\ LET target == parse_s3_uri(args.target_s3_uri)
       IN  s3calls' = Append(s3calls, [op |-> "put_object",
                                       Bucket |-> target.bucket,
                                       Key |-> target.key,
                                       Body |-> EncodeRows(out)])
    /\ IF pc = "done" /\ args.s3_put # "ok"
       THEN Raise("ClientError") /\ UNCHANGED outcome
       ELSE /\ outcome' = IF pc = "done" THEN [kind |-> "NoneType"]
                          ELSE outcome
            /\ UNCHANGED <<pc, exc>>
    /\ UNCHANGED <<args, text_out>>
    /\ UNCHANGED enginevars

\* client.put_object(Bucket=target_bucket, Key=target_key,
\* Body=obfuscated_bytes), or the exception of process_s3_file_to_bytes
UploadPut ==
    /\ pc \in {"done", "raised"}
    /\ frames # <<>>
    /\ Head(frames) = "process_and_upload"
    /\ frames' = Tail(frames)
    /\ IF pc = "done"
       THEN /\ LET target == parse_s3_uri(args.target_s3_uri)
               IN  s3calls' = Append(s3calls, [op |-> "put_object",
                                               Bucket |-> target.bucket,
                                               Key |-> target.key,
                                               Body |-> outcome.value])
            /\ IF args.s3_put = "ok"
               THEN outcome' = [kind |-> "NoneType"] /\ UNCHANGED <<pc, exc>>
               ELSE Raise("ClientError") /\ UNCHANGED outcome
       ELSE UNCHANGED <<s3calls, outcome, pc, exc>>
    /\ UNCHANGED <<args, text_out>>
    /\ UNCHANGED enginevars

\* process_s3_csv_to_bytes: return process_s3_file_to_bytes(...,
\* file_format="csv", ...)
LegacyCsvCall ==
    /\ pc = "process_s3_csv_to_bytes"
    /\ args' = [args EXCEPT !.file_format = s_csv]
    /\ pc' = "process_s3_file_to_bytes"
    /\ UNCHANGED <<exc, frames, s3calls, text_out, outcome>>
    /\ UNCHANGED enginevars

----------------------------------------------------------------------------
(* lambda_entry.py *)

\* The secret is loaded into OBFUSCATOR_KEY; a failure of the lookup is
\* logged and the handler goes on
LambdaLoadSecret ==
    /\ pc = "lambda_handler"
    /\ LET secret == IF Falsy(args.secret_name) THEN None ELSE args.secret
       IN  IF secret = LookupFails \/ Falsy(secret)
           THEN UNCHANGED args
           ELSE args' = [args EXCEPT !.env_key = secret]
    /\ pc' = "lambda_payload"
    /\ UNCHANGED <<exc, frames, s3calls, text_out, outcome>>
    /\ UNCHANGED enginevars

\* safe_parse_payload, payload.get of the required and the optional keys, and
\* the call of process_and_upload or process_s3_csv_to_bytes
LambdaDispatch ==
    /\ pc = "lambda_payload"
    /\ LET payload == safe_parse_payload(args.event)
       IN  IF payload.pytype = "ValueError"
           THEN /\ outcome' = [kind |-> "dict", status |-> "error",
                               message |-> payload.message]
                /\ pc' = "done"
                /\ UNCHANGED <<args, exc, frames>>
           ELSE IF payload.pytype # "dict"
           THEN /\ Raise("AttributeError")
                /\ UNCHANGED <<args, frames, outcome>>
           ELSE IF Falsy(payload.s3_uri) \/ FalsyList(payload.fields)
           THEN /\ outcome' =
                       [kind |-> "dict", status |-> "error",
                        message |->
                            "Missing required 's3_uri' or 'fields' in payload"]
                /\ pc' = "done"
                /\ UNCHANGED <<args, exc, frames>>
           ELSE /\ args' = [args EXCEPT
                               !.s3_uri = payload.s3_uri,
                               !.sensitive_fields = payload.fields,
                               !.primary_key_field =
                                   IF payload.primary_key = None THEN s_id
                                   ELSE payload.primary_key,
                               !.target_s3_uri = payload.target_s3_uri]
                /\ frames' = <<"lambda_handler">> \o frames
                /\ pc' = IF Falsy(payload.target_s3_uri)
                         THEN "process_s3_csv_to_bytes"
                         ELSE "process_and_upload"
                /\ UNCHANGED <<exc, outcome>>
    /\ UNCHANGED <<s3calls, text_out>>
    /\ UNCHANGED enginevars

\* The three returns of the try block: uploaded, length of the bytes, or
\* "processing failed" for any exception
LambdaReturn ==
    /\ pc \in {"done", "raised"}
    /\ frames # <<>>
    /\ Head(frames) = "lambda_handler"
    /\ frames' = Tail(frames)
    /\ pc' = "done"
    /\ outcome' =
           IF pc = "raised"
           THEN [kind |-> "dict", status |-> "error",
                 message |-> "processing failed"]
           ELSE IF ~Falsy(args.target_s3_uri)
           THEN [kind |-> "dict", status |-> "ok", uploaded |-> TRUE,
                 target |-> args.target_s3_uri]
           ELSE [kind |-> "dict", status |-> "ok", uploaded |-> FALSE,
                 length |-> ByteLength(outcome.value)]
    /\ UNCHANGED <<args, exc, s3calls, text_out>>
    /\ UNCHANGED enginevars

NextIO ==
    \/ Next
    \/ ShimCall
    \/ ShimReturn
    \/ S3FileStart
    \/ S3GetObject
    \/ S3FileReturn
    \/ UploadStart
    \/ UploadPut
    \/ LegacyCsvCall
    \/ LambdaLoadSecret
    \/ LambdaDispatch
    \/ LambdaReturn

SpecIO == InitIO /\ [][NextIO]_vars

----------------------------------------------------------------------------
(* What the input holds, for stating the properties *)

IsRecord(line) == line # <<>>

\* The field-name line of the input
Header == args.input[1]

\* The data records of the input, in input order (blank lines are not records)
InputRecords ==
    IF Len(args.input) = 0 THEN <<>> ELSE SelectSeq(Tail(args.input), IsRecord)

SensitiveNames == Range(args.sensitive_fields)

\* Record r of the input has a cell for field f
HasField(r, f) ==
    \E j \in DOMAIN Header : Header[j] = f /\ j <= Len(InputRecords[r])

Column(f) == CHOOSE j \in DOMAIN Header : Header[j] = f

\* The primary-key value of record r, the empty string when it has none
PrimaryKeyOf(r) ==
    IF HasField(r, args.primary_key_field)
    THEN InputRecords[r][Column(args.primary_key_field)]
    ELSE EmptyStr

CallsFor(r, f) == {k \in DOMAIN calls : calls[k].rec = r /\ calls[k].field = f}

\* The outermost call is through
Finished == frames = <<>> /\ pc \in {"done", "raised"}

\* A URI without the scheme prefix s3://
BadScheme(uri) == Len(uri) < 5 \/ SubSeq(uri, 1, 5) # <<"s", "3", ":", "/", "/">>

IsPut(c) == c.op = "put_object"
PutCalls == SelectSeq(s3calls, IsPut)

----------------------------------------------------------------------------
(* Properties *)

\* C1: a successful CSVAdapter.process_stream call returns the number r of
\* data rows of the input and has written one header line equal to the input
\* header followed by exactly r rows, each with one cell per header field.
Thm_C1_RoundTripShape ==
    pc = "done" =>
        /\ result = Len(InputRecords)
        /\ Len(out) = 1 + Len(InputRecords)
        /\ out[1] = Header
        /\ \A i \in 2..Len(out) : Len(out[i]) = Len(Header)

Wit_C1_RoundTripShape ==
    /\ pc = "done"
    /\ result = 2
    /\ Len(args.input) = 3
    /\ \E r \in 1..2 : HasField(r, s_em)
    /\ s_em \in SensitiveNames

Orig_C3_NoLeakAnywhere ==
    \A i \in 2..Len(out) : \A j \in DOMAIN Header :
        (Header[j] \in SensitiveNames /\ j <= Len(InputRecords[i - 1])
         /\ InputRecords[i - 1][j] # out[i][j])
            => \A a \in DOMAIN out : \A b \in DOMAIN out[a] :
                   out[a][b] # InputRecords[i - 1][j]

\* C3 amended: the output cell of a sensitive field that a written record
\* contains holds the value obfuscate_fn returned for that record and field,
\* so the raw value stays in that cell only when it equals that token or mask.
Thm_C3_SensitiveCellReplaced ==
    \A i \in 2..Len(out) : \A j \in DOMAIN Header :
        (Header[j] \in SensitiveNames /\ j <= Len(InputRecords[i - 1]))
            => /\ CallsFor(i - 1, Header[j]) # {}
               /\ \A k \in CallsFor(i - 1, Header[j]) : out[i][j] = calls[k].ret

Wit_C3_SensitiveCellReplaced ==
    /\ pc = "done"
    /\ \E i \in 2..Len(out) : \E j \in DOMAIN Header :
          /\ Header[j] \in SensitiveNames
          /\ j <= Len(InputRecords[i - 1])
          /\ InputRecords[i - 1][j] # out[i][j]
          /\ \E a \in DOMAIN out : \E b \in DOMAIN out[a] :
                 out[a][b] = InputRecords[i - 1][j]

\* C4: after a successful call, obfuscate_fn was called exactly once for every
\* (record, sensitive field the record contains) pair and never for a field
\* the record lacks, with the record's primary-key value and the field name,
\* and the output cell of the field holds the value the call returned.
Claim_C4_OncePerPresentField ==
    pc = "done" =>
        \A r \in 1..Len(InputRecords) : \A f \in SensitiveNames :
            IF HasField(r, f)
            THEN /\ Cardinality(CallsFor(r, f)) = 1
                 /\ \A k \in CallsFor(r, f) :
                       /\ calls[k].pk = PrimaryKeyOf(r)
                       /\ out[r + 1][Column(f)] = calls[k].ret
            ELSE CallsFor(r, f) = {}

\* C5: when the first line of the input is empty or absent, process_stream
\* of the CSV adapter raises ValueError, has processed no record, called
\* obfuscate_fn never and written nothing, not even a header.
Thm_C5_NoHeaderIsFormatError ==
    (/\ adapter = "CSVAdapter"
     /\ pc # "process_stream"
     /\ (Len(args.input) = 0 \/ Header = <<>>))
        => /\ pc = "raised"
           /\ exc = "ValueError"
           /\ count = 0
           /\ calls = <<>>
           /\ out = <<>>

Wit_C5_NoHeaderIsFormatError ==
    /\ pc = "raised"
    /\ adapter = "CSVAdapter"
    /\ Len(args.input) = 3
    /\ Header = <<>>
    /\ InputRecords # <<>>

\* C6: with a header present, a record with more or fewer cells than the
\* header never makes CSVAdapter.process_stream raise, and the call ends with
\* every record counted and written.
Claim_C6_RaggedRowsTolerated ==
    (adapter = "CSVAdapter" /\ fieldnames # None /\ fieldnames # <<>>)
        => /\ pc # "raised"
           /\ pc = "done" => /\ result = Len(InputRecords)
                             /\ Len(out) = 1 + Len(InputRecords)

\* C7: obfuscate_fn is never called for a sensitive field that the record
\* being processed does not contain.
Claim_C7_AbsentFieldSkipped ==
    \A k \in DOMAIN calls : HasField(calls[k].rec, calls[k].field)

\* C8: for a record without the primary-key field (not in the header, or row
\* too short to reach it), the primary-key value passed to obfuscate_fn is the
\* empty string.
Claim_C8_AbsentKeyIsEmptyString ==
    \A k \in DOMAIN calls :
        ~HasField(calls[k].rec, args.primary_key_field)
            => calls[k].pk = EmptyStr

\* C9: for the tags json, jsonl and parquet, process_stream of the resolved
\* adapter, called directly or through obfuscate_stream with a key supplied,
\* raises NotImplementedError with nothing read, nothing written and the
\* callback never called.
Thm_C9_UnimplementedFailsFast ==
    (/\ lower(args.file_format) \in {s_json, s_jsonl, s_parquet}
     /\ (args.entry = "process_stream" \/ args.key # None))
        => /\ out = <<>>
           /\ calls = <<>>
           /\ in_pos = 0
           /\ pc \in {"obfuscate_stream", "get_adapter", "process_stream",
                      "raised"}
           /\ pc = "raised" => exc = "NotImplementedError"

Wit_C9_UnimplementedFailsFast ==
    /\ pc = "raised"
    /\ exc = "NotImplementedError"
    /\ args.entry = "obfuscate_stream"
    /\ args.file_format = s_jsonl
    /\ Len(InputRecords) = 2

\* C10: obfuscate_stream without a key argument and without a key in the
\* environment raises RuntimeError as its first step, whatever the format tag:
\* no adapter is resolved, nothing is read from the input and nothing written.
Thm_C10_MissingKeyAbortsFirst ==
    (/\ args.entry = "obfuscate_stream"
     /\ args.key = None
     /\ args.env_key \in {None, EmptyStr}
     /\ pc # "obfuscate_stream")
        => /\ pc = "raised"
           /\ exc = "RuntimeError"
           /\ adapter = "none"
           /\ in_pos = 0
           /\ fieldnames = None
           /\ out = <<>>
           /\ calls = <<>>

Wit_C10_MissingKeyAbortsFirst ==
    /\ pc = "raised"
    /\ exc = "RuntimeError"
    /\ args.env_key = EmptyStr
    /\ args.file_format = s_csv
    /\ Len(InputRecords) = 2

\* C14: in mask mode every value obfuscate_fn returns is exactly mask_token,
\* whatever the primary-key value, field name and token length, so every
\* targeted cell of every written row is exactly mask_token, and a successful
\* call has written every row.
Thm_C14_MaskModeWritesMask ==
    (args.entry = "obfuscate_stream" /\ args.mode = "mask")
        => /\ \A k \in DOMAIN calls : calls[k].ret = args.mask_token
           /\ \A i \in 2..Len(out) : \A j \in DOMAIN Header :
                  Header[j] \in SensitiveNames => out[i][j] = args.mask_token
           /\ pc = "done" => Len(out) = 1 + Len(InputRecords)

Wit_C14_MaskModeWritesMask ==
    /\ pc = "done"
    /\ args.mode = "mask"
    /\ args.token_length < Len(args.mask_token)
    /\ Len(out) = 3
    /\ \E j \in DOMAIN Header :
          /\ Header[j] \in SensitiveNames
          /\ j <= Len(InputRecords[1])
          /\ InputRecords[1][j] # args.mask_token
    /\ \E k \in DOMAIN calls : calls[k].pk # calls[1].pk

\* C16: processing is streaming: the records read from the input are exactly
\* the count records, all of them written except at most the one being
\* transformed, so a record is read only when its predecessors are written.
Thm_C16_OneRecordInFlight ==
    LET written == IF out = <<>> THEN 0 ELSE Len(out) - 1
        read == IF in_pos = 0 THEN 0
                ELSE Len(SelectSeq(SubSeq(args.input, 2, in_pos), IsRecord))
    IN  /\ read = count
        /\ count - written \in {0, 1}
        /\ count - written = 1 => pc \in {"fields", "raised"}

Wit_C16_OneRecordInFlight ==
    /\ pc = "fields"
    /\ count = 2
    /\ Len(out) = 2
    /\ in_pos = 3

\* C19: the primary-key value of a record is captured before any field of the
\* record is replaced: every call of obfuscate_fn for a record that has the
\* primary-key field gets the record's original primary-key cell, also when
\* the primary-key field is itself replaced, in either order of
\* sensitive_fields; for a record without it the argument is empty or None.
Thm_C19_KeyCapturedBeforeReplace ==
    \A k \in DOMAIN calls :
        IF HasField(calls[k].rec, args.primary_key_field)
        THEN /\ calls[k].pk = PrimaryKeyOf(calls[k].rec)
             /\ calls[k].ret = obfuscate_fn(PrimaryKeyOf(calls[k].rec),
                                            calls[k].field)
        ELSE calls[k].pk \in {EmptyStr, None}

Wit_C19_KeyCapturedBeforeReplace ==
    /\ pc = "done"
    /\ args.sensitive_fields = <<s_id, s_em>>
    /\ Len(calls) = 2
    /\ calls[1].field = s_id
    /\ calls[2].field = s_em
    /\ calls[2].pk = InputRecords[1][Column(s_id)]
    /\ out[2][Column(s_id)] # InputRecords[1][Column(s_id)]

Claim_C13_TokenHasRequestedLength ==
    (args.entry = "obfuscate_value" /\ pc = "returned" /\ args.mode = "token")
        => /\ Len(outcome.value) = args.length
           /\ \A i \in DOMAIN outcome.value :
                  outcome.value[i] \in Range(HexChars)

\* C15 as stated: obfuscate_csv_stream leaves in its text stream what
\* obfuscate_stream wrote (decoded), returns what obfuscate_stream returned
\* and fails as obfuscate_stream failed.
Orig_C15_ShimIdentical ==
    (args.entry = "obfuscate_csv_stream" /\ Finished)
        => /\ text_out = out
           /\ pc = "done" => outcome = [kind |-> "int", value |-> result]

\* C15: when obfuscate_stream on the UTF-8 bytes of the text succeeds,
\* obfuscate_csv_stream has written the decoded output of that call to its
\* text stream and returns None, not the record count; when it fails, the
\* same exception leaves obfuscate_csv_stream and nothing is written to the
\* text stream, whatever obfuscate_stream had written before it failed.
Thm_C15_ShimWrapsOrchestrator ==
    (args.entry = "obfuscate_csv_stream" /\ Finished)
        => IF pc = "done"
           THEN /\ text_out = out
                /\ outcome = [kind |-> "NoneType"]
                /\ result = Len(InputRecords)
                /\ args.input = args.text
           ELSE /\ text_out = <<>>
                /\ outcome = [kind |-> "none"]
                /\ exc \in {"RuntimeError", "ValueError"}

Wit_C15_ShimWrapsOrchestrator ==
    /\ args.entry = "obfuscate_csv_stream"
    /\ Finished
    /\ pc = "done"
    /\ Len(text_out) = 3
    /\ \E i \in DOMAIN text_out : \E j \in DOMAIN text_out[i] :
          c_eacute \in Range(text_out[i][j])

\* C17: lambda_handler lets no failure escape: for every event it returns a
\* dict whose status is "error" with a message or "ok", "error" whenever the
\* secret lookup failed or an exception was raised, and "ok" only when
\* nothing was raised.
Claim_C17_NoFailureEscapes ==
    (args.entry = "lambda_handler" /\ Finished)
        => /\ pc = "done"
           /\ outcome.kind = "dict"
           /\ outcome.status \in {"ok", "error"}
           /\ outcome.status = "ok" => exc = "none"
           /\ (args.secret_name # None /\ args.secret = LookupFails)
                  => outcome.status = "error"

\* C18: a call of process_s3_file_to_bytes or process_and_upload with a
\* source or target URI that does not begin with s3:// never reaches
\* get_object or put_object and ends in ValueError.
Thm_C18_BadUriNoNetworkCall ==
    (/\ args.entry \in {"process_s3_file_to_bytes", "process_and_upload"}
     /\ \/ BadScheme(args.s3_uri)
        \/ args.entry = "process_and_upload" /\ BadScheme(args.target_s3_uri))
        => /\ s3calls = <<>>
           /\ pc \in {"process_and_upload", "process_s3_file_to_bytes",
                      "raised"}
           /\ pc = "raised" => exc = "ValueError"

Wit_C18_BadUriNoNetworkCall ==
    /\ args.entry = "process_and_upload"
    /\ ~BadScheme(args.target_s3_uri)
    /\ BadScheme(args.s3_uri)
    /\ Len(args.s3_uri) > 5
    /\ args.s3_get = "ok"
    /\ Finished
    /\ exc = "ValueError"
    /\ s3calls = <<>>

\* C20: put_object is called at most once, and only after get_object
\* succeeded and obfuscate_stream returned: its body is the complete output,
\* the header and one row for every record of the object, and its place is
\* the target; after any earlier failure there is no put_object call.
Thm_C20_UploadOnceAfterSuccess ==
    /\ Len(PutCalls) <= 1
    /\ Len(PutCalls) = 1
           => /\ Len(s3calls) = 2
              /\ s3calls[1].op = "get_object"
              /\ args.s3_get = "ok"
              /\ adapter = "CSVAdapter"
              /\ result = Len(InputRecords)
              /\ Len(out) = 1 + Len(InputRecords)
              /\ PutCalls[1].Body = EncodeRows(out)
              /\ args.target_s3_uri =
                     <<"s", "3", ":", "/", "/">> \o PutCalls[1].Bucket
                         \o <<"/">> \o PutCalls[1].Key
              /\ exc # "none" => (exc = "ClientError" /\ args.s3_put = "error")

Wit_C20_UploadOnceAfterSuccess ==
    /\ args.entry = "process_and_upload"
    /\ Finished
    /\ pc = "done"
    /\ Len(s3calls) = 2
    /\ Len(PutCalls) = 1
    /\ Len(PutCalls[1].Body) = 3
    /\ \E j \in DOMAIN PutCalls[1].Body[3] :
          b_C3 \in Range(PutCalls[1].Body[3][j])

====
